---- MODULE Spec2Model ----
(***************************************************************************)
(* A model of the Cat entity of cats-3d (src/src/Cat.ts): the click        *)
(* reaction, the idle/walk wander state machine, destination selection by  *)
(* rejection sampling and the obstacle query.                              *)
(*                                                                         *)
(* Numbers are fixed point.  Time is in milliseconds, planar positions and *)
(* radii in hundredths of a world unit, angles in milliradians, pose       *)
(* values (height, scale, mouth) in millionths, reaction progress in       *)
(* 1/ProgScale.  Math.random() is a draw k/RandDen; Math.sin, Math.cos and *)
(* Math.atan2 are computed by rational approximations.  The tail sway      *)
(* (Date.now()) feeds nothing else and is left out.                        *)
(***************************************************************************)
EXTENDS Integers, Sequences, FiniteSets, TLC

\* ---- bounds of the model ----
MaxTicks == 3
MaxObstacles == 1

\* ---- fixed-point units ----
ProgScale == 3000
RandDen == 12
PI == 3142

\* ---- program constants ----
walkSpeed == 80
boundaryRadius == 1000
mouthClosedScaleY == 300000
mouthOpenScaleY == 1200000
MaxAttempts == 10
StepBuffer == 50
DestBuffer == 80
ArriveDist == 20
Duration == 3000
RestScale == <<1000000, 1000000, 1000000>>

\* ---- inputs ----
DeltaTimes == {0, 1000, 2500}
AngleDraws == {0, 3}
DistDraws == {0, 2, 11}
IdleDraws == {0, 4}
InitialPositions == {[x |-> 0, z |-> 0], [x |-> 300, z |-> 0]}
InitialY == 400000
InitialHeadings == {0}
ObstacleChoices == {[x |-> 0, z |-> 0, radius |-> 100]}
SoundChoices == {"none", "stopped"}

\* ---- arithmetic helpers ----
Abs(a) == IF a < 0 THEN -a ELSE a

\* division rounded to the nearest integer, symmetric about zero
RoundDiv(a, b) == IF a >= 0 THEN (2 * a + b) \div (2 * b)
                            ELSE -((2 * (-a) + b) \div (2 * b))

RECURSIVE SqrtSearch(_, _, _)
SqrtSearch(n, lo, hi) ==
  IF lo >= hi THEN lo
  ELSE LET mid == (lo + hi + 1) \div 2
       IN IF mid * mid <= n THEN SqrtSearch(n, mid, hi)
                            ELSE SqrtSearch(n, lo, mid - 1)

\* Math.sqrt, rounded down
Sqrt(n) == SqrtSearch(n, 0, 46340)

\* Math.sin on [0, PI] in thousandths (Bhaskara's rational approximation)
SinHalf(x) ==
  LET q == x * (PI - x)
  IN (16 * q) \div ((5 * PI * PI - 4 * q) \div 1000)

\* Math.sin of an angle in milliradians, in thousandths
Sin(t) ==
  LET r == t % (2 * PI)
  IN IF r <= PI THEN SinHalf(r) ELSE -SinHalf(r - PI)

\* Math.cos of the angle 2*pi*k/RandDen, in thousandths
CosTable == <<1000, 866, 500, 0, -500, -866, -1000, -866, -500, 0, 500, 866>>
CosDraw(k) == CosTable[(k % RandDen) + 1]
SinDraw(k) == CosTable[((k + 9) % RandDen) + 1]

\* Math.atan on [0, 1] (argument and result in thousandths / milliradians)
AtanUnit(t) == (t * (785 + (273 * (1000 - t)) \div 1000)) \div 1000

\* Math.atan2(y, x) in milliradians
Atan2(y, x) ==
  IF x = 0 /\ y = 0 THEN 0
  ELSE LET ay == Abs(y)
           ax == Abs(x)
           a == IF ay <= ax THEN AtanUnit((1000 * ay) \div ax)
                            ELSE (PI \div 2) - AtanUnit((1000 * ax) \div ay)
           b == IF x >= 0 THEN a ELSE PI - a
       IN IF y >= 0 THEN b ELSE -b

\* Math.atan2(Math.sin(d), Math.cos(d)): d wrapped to [-PI, PI]
WrapAngle(d) ==
  LET m == (d + PI) % (2 * PI)
  IN IF m = 0 /\ d > 0 THEN PI ELSE m - PI

\* ---- state ----
VARIABLES
  posX, posZ,          \* mesh.position.x, mesh.position.z
  posY,                \* mesh.position.y
  scale,               \* mesh.scale
  rotationY,           \* mesh.rotation.y
  mouthScaleY,         \* mouth.scale.y
  legs,                \* rotation.x of the four legs
  originalY,
  isAnimating, animationProgress,
  targetPosition, walkTime, idleTime, isIdle, idleDuration,
  obstacles,
  sound,               \* "none" (no audio buffer), "stopped" or "playing"
  reactElapsed,        \* history: deltaTime summed since the last click
  ticks,               \* history: number of update calls so far
  hist,                \* history: of the destination selections so far
  ev                   \* history: what the last call did

vars == <<posX, posZ, posY, scale, rotationY, mouthScaleY, legs, originalY,
          isAnimating, animationProgress, targetPosition, walkTime, idleTime,
          isIdle, idleDuration, obstacles, sound, reactElapsed, ticks, hist, ev>>

\* the wander state, as the record updateWalking works on
Wander == [x |-> posX, z |-> posZ, rot |-> rotationY, target |-> targetPosition,
           walkTime |-> walkTime, idleTime |-> idleTime, isIdle |-> isIdle,
           idleDuration |-> idleDuration, legs |-> legs]

\* ---- obstacle query ----
\* a mutant of Collides: the buffer is left out of the comparison
CollidesNoBuffer(position, obs, buffer) ==
  \E i \in 1..Len(obs) :
    LET dx == position.x - obs[i].x
        dz == position.z - obs[i].z
        reach == obs[i].radius
    IN reach > 0 /\ dx * dx + dz * dz < reach * reach

\* sqrt(dx*dx + dz*dz) < radius + buffer, decided on the squares
Collides(position, obs, buffer) ==
  \E i \in 1..Len(obs) :
    LET dx == position.x - obs[i].x
        dz == position.z - obs[i].z
        reach == obs[i].radius + buffer
    IN reach > 0 /\ dx * dx + dz * dz < reach * reach

\* a mutant of collidesWithObstacle: the step is tested with no buffer
collidesWithObstacleBare(position, obs) == Collides(position, obs, 0)

\* collidesWithObstacle called with its default buffer
collidesWithObstacle(position, obs) == Collides(position, obs, StepBuffer)

\* ---- destination selection ----
\* a mutant of Candidate: the distance is offset by the boundary radius
CandidateOffset(a, d) ==
  LET distance == boundaryRadius + RoundDiv(d * boundaryRadius, RandDen)
  IN [x |-> RoundDiv(CosDraw(a) * distance, 1000),
      z |-> RoundDiv(SinDraw(a) * distance, 1000)]

\* the candidate built from an angle draw a and a distance draw d
Candidate(a, d) ==
  LET distance == RoundDiv(d * boundaryRadius, RandDen)
  IN [x |-> RoundDiv(CosDraw(a) * distance, 1000),
      z |-> RoundDiv(SinDraw(a) * distance, 1000)]

Candidates == {Candidate(a, d) : a \in AngleDraws, d \in DistDraws}

NoPick == [picked |-> FALSE, found |-> FALSE,
           last |-> [x |-> 0, z |-> 0], idleDrawn |-> FALSE]

\* a mutant of PickLoop: on exhaustion the last candidate is accepted
RECURSIVE PickLoopAcceptLast(_, _, _)
PickLoopAcceptLast(attempts, obs, tgt) ==
  LET rest == PickLoopAcceptLast(attempts + 1, obs, tgt)
  IN UNION { IF ~Collides(c, obs, DestBuffer)
               THEN {[target |-> c, found |-> TRUE, last |-> c]}
             ELSE IF attempts + 1 < MaxAttempts
               THEN rest
             ELSE {[target |-> c, found |-> FALSE, last |-> c]}
           : c \in Candidates }

\* a mutant of PickLoop: the first candidate is taken without the obstacle test
PickLoopNoCheck(attempts, obs, tgt) ==
  {[target |-> c, found |-> TRUE, last |-> c] : c \in Candidates}

\* the for loop of pickNewTarget from iteration `attempts` on: the set of
\* its possible results over all draws
RECURSIVE PickLoop(_, _, _)
PickLoop(attempts, obs, tgt) ==
  LET rest == PickLoop(attempts + 1, obs, tgt)
  IN UNION { IF ~Collides(c, obs, DestBuffer)
               THEN {[target |-> c, found |-> TRUE, last |-> c]}
             ELSE IF attempts + 1 < MaxAttempts
               THEN rest
             ELSE {[target |-> tgt, found |-> FALSE, last |-> c]}
           : c \in Candidates }

\* 1 + Math.random() * 3 seconds
IdleDurationOf(k) == 1000 + (k * 3000) \div RandDen

\* pickNewTarget: the loop, then the idle duration
PickNewTarget(obs, tgt) ==
  { [target |-> r.target, idleDuration |-> IdleDurationOf(k),
     info |-> [picked |-> TRUE, found |-> r.found, last |-> r.last,
               idleDrawn |-> TRUE]]
    : r \in PickLoop(0, obs, tgt), k \in IdleDraws }

\* a mutant of animateLegs: the swing is taken from the cosine of the phase
animateLegsCos(time) ==
  LET legSwing == RoundDiv(Sin(time + PI \div 2) * 3, 10)
  IN [fl |-> legSwing, br |-> legSwing, fr |-> -legSwing, bl |-> -legSwing]

\* ---- leg animation ----
animateLegs(time) ==
  LET legSwing == RoundDiv(Sin(time) * 3, 10)
  IN [fl |-> legSwing, br |-> legSwing, fr |-> -legSwing, bl |-> -legSwing]

\* ---- wander state machine ----
\* a mutant of WalkIdle: the idle pause ends only once the duration is exceeded
WalkIdleGt(w, obs, deltaTime) ==
  LET t == w.idleTime + deltaTime
  IN IF t > w.idleDuration
       THEN { [w |-> [w EXCEPT !.isIdle = FALSE, !.idleTime = 0,
                               !.target = p.target,
                               !.idleDuration = p.idleDuration,
                               !.legs = animateLegs(0)],
               branch |-> "idleEnd", info |-> p.info]
              : p \in PickNewTarget(obs, w.target) }
       ELSE { [w |-> [w EXCEPT !.idleTime = t, !.legs = animateLegs(0)],
               branch |-> "idleWait", info |-> NoPick] }

\* updateWalking, idle branch
WalkIdle(w, obs, deltaTime) ==
  LET t == w.idleTime + deltaTime
  IN IF t >= w.idleDuration
       THEN { [w |-> [w EXCEPT !.isIdle = FALSE, !.idleTime = 0,
                               !.target = p.target,
                               !.idleDuration = p.idleDuration,
                               !.legs = animateLegs(0)],
               branch |-> "idleEnd", info |-> p.info]
              : p \in PickNewTarget(obs, w.target) }
       ELSE { [w |-> [w EXCEPT !.idleTime = t, !.legs = animateLegs(0)],
               branch |-> "idleWait", info |-> NoPick] }

\* a mutant of Arrive: the legs keep their last walking pose
ArriveKeepLegs(w) ==
  { [w |-> [w EXCEPT !.isIdle = TRUE], branch |-> "arrive", info |-> NoPick] }

\* a mutant of Arrive: the idle duration is drawn again on arrival
ArriveRedraw(w) ==
  { [w |-> [w EXCEPT !.isIdle = TRUE, !.legs = animateLegs(0),
                     !.idleDuration = IdleDurationOf(k)],
     branch |-> "arrive", info |-> [NoPick EXCEPT !.idleDrawn = TRUE]]
    : k \in IdleDraws }

\* a mutant of Arrive: the idle flag is not set on arrival
ArriveStillWalking(w) ==
  { [w |-> [w EXCEPT !.legs = animateLegs(0)],
     branch |-> "arrive", info |-> NoPick] }

\* updateWalking: the destination is reached
Arrive(w) ==
  { [w |-> [w EXCEPT !.isIdle = TRUE, !.legs = animateLegs(0)],
     branch |-> "arrive", info |-> NoPick] }

\* a mutant of Redirect: the colliding step is taken before redirecting
RedirectAfterStep(w, obs, rot, nextPosition) ==
  { [w |-> [w EXCEPT !.rot = rot, !.x = nextPosition.x, !.z = nextPosition.z,
                     !.target = p.target, !.idleDuration = p.idleDuration],
     branch |-> "redirect", info |-> p.info]
    : p \in PickNewTarget(obs, w.target) }

\* updateWalking: the next position collides
Redirect(w, obs, rot, nextPosition) ==
  { [w |-> [w EXCEPT !.rot = rot, !.target = p.target,
                     !.idleDuration = p.idleDuration],
     branch |-> "redirect", info |-> p.info]
    : p \in PickNewTarget(obs, w.target) }

\* updateWalking: the step is taken
Step(w, rot, nextPosition, deltaTime) ==
  { [w |-> [w EXCEPT !.rot = rot, !.x = nextPosition.x, !.z = nextPosition.z,
                     !.walkTime = w.walkTime + 8 * deltaTime,
                     !.legs = animateLegs(w.walkTime + 8 * deltaTime)],
     branch |-> "step", info |-> NoPick] }

\* updateWalking, walking branch
WalkMove(w, obs, deltaTime) ==
  LET dx == w.target.x - w.x
      dz == w.target.z - w.z
      sq == dx * dx + dz * dz
  IN IF sq < ArriveDist * ArriveDist
       THEN Arrive(w)
       ELSE
         LET distance == Sqrt(sq)
             targetAngle == Atan2(dx, dz)
             normalizedDiff == WrapAngle(targetAngle - w.rot)
             rot == w.rot + RoundDiv(normalizedDiff * deltaTime * 3, 1000)
             moveAmount == RoundDiv(walkSpeed * deltaTime, 1000)
             nextPosition == [x |-> w.x + RoundDiv(dx * moveAmount, distance),
                              z |-> w.z + RoundDiv(dz * moveAmount, distance)]
         IN IF collidesWithObstacle(nextPosition, obs)
              THEN Redirect(w, obs, rot, nextPosition)
              ELSE Step(w, rot, nextPosition, deltaTime)

updateWalking(w, obs, deltaTime) ==
  IF w.isIdle THEN WalkIdle(w, obs, deltaTime) ELSE WalkMove(w, obs, deltaTime)

\* ---- click reaction ----
\* |sin(progress * PI * 3)| in thousandths, progress in 1/ProgScale
Bounce(progress) ==
  LET f == (progress * 3 * 1000) \div ProgScale
  IN SinHalf(((f % 1000) * PI) \div 1000)

\* 1 - progress * 0.7 in thousandths
FadeOut(progress) == 1000 - (progress * 700) \div ProgScale

\* a mutant of ReactStep: the reaction ends only once progress exceeds 1
ReactStepGt(progress, deltaTime, restY) ==
  LET p == progress + (deltaTime * ProgScale) \div Duration
  IN IF p > ProgScale
       THEN [isAnimating |-> FALSE, animationProgress |-> 0, posY |-> restY,
             scale |-> RestScale, mouthScaleY |-> mouthClosedScaleY]
       ELSE LET bf == Bounce(p) * FadeOut(p)
            IN [isAnimating |-> TRUE, animationProgress |-> p,
                posY |-> restY + (bf * 3) \div 10,
                scale |-> <<1000000 + (bf * 8) \div 100,
                            1000000 + bf \div 10,
                            1000000 - (bf * 4) \div 100>>,
                mouthScaleY |-> mouthClosedScaleY +
                  ((((mouthOpenScaleY - mouthClosedScaleY) \div 1000) * bf) \div 1000)]

\* a mutant of ReactStep: the mouth is not closed when the reaction ends
ReactStepMouthStays(progress, deltaTime, restY) ==
  LET p == progress + (deltaTime * ProgScale) \div Duration
  IN IF p >= ProgScale
       THEN [isAnimating |-> FALSE, animationProgress |-> 0, posY |-> restY,
             scale |-> RestScale, mouthScaleY |-> mouthScaleY]
       ELSE LET bf == Bounce(p) * FadeOut(p)
            IN [isAnimating |-> TRUE, animationProgress |-> p,
                posY |-> restY + (bf * 3) \div 10,
                scale |-> <<1000000 + (bf * 8) \div 100,
                            1000000 + bf \div 10,
                            1000000 - (bf * 4) \div 100>>,
                mouthScaleY |-> mouthClosedScaleY +
                  ((((mouthOpenScaleY - mouthClosedScaleY) \div 1000) * bf) \div 1000)]

\* the part of update after the walking call, entered while animating
ReactStep(progress, deltaTime, restY) ==
  LET p == progress + (deltaTime * ProgScale) \div Duration
  IN IF p >= ProgScale
       THEN [isAnimating |-> FALSE, animationProgress |-> 0, posY |-> restY,
             scale |-> RestScale, mouthScaleY |-> mouthClosedScaleY]
       ELSE LET bf == Bounce(p) * FadeOut(p)
            IN [isAnimating |-> TRUE, animationProgress |-> p,
                posY |-> restY + (bf * 3) \div 10,
                scale |-> <<1000000 + (bf * 8) \div 100,
                            1000000 + bf \div 10,
                            1000000 - (bf * 4) \div 100>>,
                mouthScaleY |-> mouthClosedScaleY +
                  ((((mouthOpenScaleY - mouthClosedScaleY) \div 1000) * bf) \div 1000)]

\* ---- construction ----
Init ==
  /\ \E p \in InitialPositions : posX = p.x /\ posZ = p.z
  /\ posY = InitialY
  /\ originalY = InitialY
  /\ scale = RestScale
  /\ rotationY \in InitialHeadings
  /\ mouthScaleY = mouthClosedScaleY
  /\ legs = [fl |-> 0, br |-> 0, fr |-> 0, bl |-> 0]
  /\ isAnimating = FALSE
  /\ animationProgress = 0
  /\ walkTime = 0
  /\ idleTime = 0
  /\ isIdle = FALSE
  /\ obstacles = <<>>
  /\ \E p \in PickNewTarget(<<>>, [x |-> 0, z |-> 0]) :
       /\ targetPosition = p.target
       /\ idleDuration = p.idleDuration
       /\ ev = [op |-> "new", deltaTime |-> 0, branch |-> "none",
                info |-> p.info, completed |-> FALSE, played |-> FALSE]
  /\ sound \in SoundChoices
  /\ reactElapsed = 0
  /\ ticks = 0
  /\ hist = [exhausted |-> FALSE, checked |-> 0]

\* ---- operations ----
addObstacle(o) ==
  /\ Len(obstacles) < MaxObstacles
  /\ obstacles' = Append(obstacles, o)
  /\ ev' = [op |-> "addObstacle", deltaTime |-> 0, branch |-> "none",
            info |-> NoPick, completed |-> FALSE, played |-> FALSE]
  /\ UNCHANGED <<posX, posZ, posY, scale, rotationY, mouthScaleY, legs,
                 originalY, isAnimating, animationProgress, targetPosition,
                 walkTime, idleTime, isIdle, idleDuration, sound,
                 reactElapsed, ticks, hist>>

\* a mutant of onClick: a click during a reaction does not restart it
onClickNoRestart ==
  /\ sound' = IF sound = "stopped" THEN "playing" ELSE sound
  /\ isAnimating' = TRUE
  /\ animationProgress' = IF isAnimating THEN animationProgress ELSE 0
  /\ reactElapsed' = IF isAnimating THEN reactElapsed ELSE 0
  /\ ev' = [op |-> "onClick", deltaTime |-> 0, branch |-> "none",
            info |-> NoPick, completed |-> FALSE,
            played |-> (sound = "stopped")]
  /\ UNCHANGED <<posX, posZ, posY, scale, rotationY, mouthScaleY, legs,
                 originalY, targetPosition, walkTime, idleTime, isIdle,
                 idleDuration, obstacles, ticks, hist>>

onClick ==
  /\ sound' = IF sound = "stopped" THEN "playing" ELSE sound
  /\ isAnimating' = TRUE
  /\ animationProgress' = 0
  /\ reactElapsed' = 0
  /\ ev' = [op |-> "onClick", deltaTime |-> 0, branch |-> "none",
            info |-> NoPick, completed |-> FALSE,
            played |-> (sound = "stopped")]
  /\ UNCHANGED <<posX, posZ, posY, scale, rotationY, mouthScaleY, legs,
                 originalY, targetPosition, walkTime, idleTime, isIdle,
                 idleDuration, obstacles, ticks, hist>>

\* the meow clip runs out (THREE.Audio clears isPlaying)
soundEnded ==
  /\ sound = "playing"
  /\ sound' = "stopped"
  /\ ev' = [op |-> "soundEnded", deltaTime |-> 0, branch |-> "none",
            info |-> NoPick, completed |-> FALSE, played |-> FALSE]
  /\ UNCHANGED <<posX, posZ, posY, scale, rotationY, mouthScaleY, legs,
                 originalY, isAnimating, animationProgress, targetPosition,
                 walkTime, idleTime, isIdle, idleDuration, obstacles,
                 reactElapsed, ticks, hist>>

\* the history after a call whose selection, if it ran one, is info:
\* whether a selection has ever run out of retries, and how many obstacles
\* were registered when the current destination was selected
HistAfter(h, info, obs) ==
  IF ~info.picked THEN h
  ELSE IF info.found THEN [h EXCEPT !.checked = Len(obs)]
  ELSE [h EXCEPT !.exhausted = TRUE]

\* a mutant of WalkingSuspended: walking runs during the meow animation too
WalkingNeverSuspended(animating) == FALSE

\* the first test of update: walking is skipped while the meow animation runs
WalkingSuspended(animating) == animating

update(deltaTime) ==
  /\ ticks < MaxTicks
  /\ ticks' = ticks + 1
  /\ \E r \in (IF ~WalkingSuspended(isAnimating)
                 THEN updateWalking(Wander, obstacles, deltaTime)
                 ELSE {[w |-> Wander, branch |-> "reacting", info |-> NoPick]}) :
       /\ posX' = r.w.x
       /\ posZ' = r.w.z
       /\ rotationY' = r.w.rot
       /\ targetPosition' = r.w.target
       /\ walkTime' = r.w.walkTime
       /\ idleTime' = r.w.idleTime
       /\ isIdle' = r.w.isIdle
       /\ idleDuration' = r.w.idleDuration
       /\ legs' = r.w.legs
       /\ hist' = HistAfter(hist, r.info, obstacles)
       /\ IF ~isAnimating
            THEN /\ ev' = [op |-> "update", deltaTime |-> deltaTime,
                           branch |-> r.branch, info |-> r.info,
                           completed |-> FALSE, played |-> FALSE]
                 /\ UNCHANGED <<posY, scale, mouthScaleY, isAnimating,
                                animationProgress, reactElapsed>>
            ELSE LET a == ReactStep(animationProgress, deltaTime, originalY)
                 IN /\ isAnimating' = a.isAnimating
                    /\ animationProgress' = a.animationProgress
                    /\ posY' = a.posY
                    /\ scale' = a.scale
                    /\ mouthScaleY' = a.mouthScaleY
                    /\ reactElapsed' = reactElapsed + deltaTime
                    /\ ev' = [op |-> "update", deltaTime |-> deltaTime,
                              branch |-> r.branch, info |-> r.info,
                              completed |-> ~a.isAnimating, played |-> FALSE]
  /\ UNCHANGED <<originalY, obstacles, sound>>

Next ==
  \/ \E deltaTime \in DeltaTimes : update(deltaTime)
  \/ onClick
  \/ \E o \in ObstacleChoices : addObstacle(o)
  \/ soundEnded

Spec == Init /\ [][Next]_vars

\* ---- an entity ticked for ever with one deltaTime ----
\* The frame loop calls update with the same deltaTime on every frame; the
\* entity is never clicked and no obstacle is registered.  The heading and
\* the walk-phase feed only WrapAngle and Sin, which are periodic, so they
\* are kept modulo a full turn to keep the state space finite.
WalkDeltaTimes == {450, 1571}

Turn(a) == a % (2 * PI)

\* update on an entity that is walking and not reacting, with the deltaTime
\* of the calls before it; the run is followed up to the arrival
walkTick(deltaTime) ==
  /\ ~isAnimating
  /\ ~isIdle
  /\ (ev.op = "update" => deltaTime = ev.deltaTime)
  /\ \E r \in updateWalking(Wander, obstacles, deltaTime) :
       /\ posX' = r.w.x
       /\ posZ' = r.w.z
       /\ rotationY' = Turn(r.w.rot)
       /\ targetPosition' = r.w.target
       /\ walkTime' = Turn(r.w.walkTime)
       /\ idleTime' = r.w.idleTime
       /\ isIdle' = r.w.isIdle
       /\ idleDuration' = r.w.idleDuration
       /\ legs' = r.w.legs
       /\ hist' = HistAfter(hist, r.info, obstacles)
       /\ ev' = [op |-> "update", deltaTime |-> deltaTime,
                 branch |-> r.branch, info |-> r.info,
                 completed |-> FALSE, played |-> FALSE]
  /\ UNCHANGED <<posY, scale, mouthScaleY, isAnimating, animationProgress,
                 reactElapsed, originalY, obstacles, sound, ticks>>

NextWalk == \E deltaTime \in WalkDeltaTimes : walkTick(deltaTime)

\* the frame loop never stops
SpecWalk == Init /\ [][NextWalk]_vars /\ WF_vars(NextWalk)

\* ---- properties ----
\* the resting pose: resting height, identity scale, closed mouth
AtRest ==
  posY = originalY /\ scale = RestScale /\ mouthScaleY = mouthClosedScaleY

\* squared planar distance between two points
DistSq(p, q) == (p.x - q.x) * (p.x - q.x) + (p.z - q.z) * (p.z - q.z)

Position == [x |-> posX, z |-> posZ]

\* p keeps the clearance `buffer` from every obstacle of obs
ClearOfAll(p, obs, buffer) ==
  \A i \in 1..Len(obs) :
    DistSq(p, obs[i]) >= (obs[i].radius + buffer) * (obs[i].radius + buffer)

WanderUnchanged ==
  UNCHANGED <<posX, posZ, rotationY, targetPosition, isIdle, idleTime,
              idleDuration, walkTime>>

NeutralLegs == legs.fl = 0 /\ legs.fr = 0 /\ legs.bl = 0 /\ legs.br = 0

\* C1: between calls the reaction progress is in [0,1), never 1 or more, and
\* it is 0 whenever the entity is not reacting.
C1_ProgressInRange ==
  /\ animationProgress >= 0
  /\ animationProgress < ProgScale
  /\ (~isAnimating => animationProgress = 0)

\* a reaction under way with progress strictly between 0 and 1
C1_Witness ==
  ev.op = "update" /\ isAnimating /\ animationProgress > 0
  /\ reactElapsed = 2500

\* C2: a reaction ends on exactly the update at which the deltaTime summed
\* since the click reaches the duration, and whenever the entity is not
\* reacting its pose is the resting pose and its progress is 0.
C2_ReactionEndsExactly ==
  /\ [](~isAnimating => AtRest /\ animationProgress = 0)
  /\ [][(isAnimating /\ ev'.op = "update")
          => ((~isAnimating') <=> (reactElapsed + ev'.deltaTime >= Duration))]_vars

\* the third of three update(1.0) calls has ended the reaction
C2_Witness ==
  ev.op = "update" /\ ev.completed /\ ev.deltaTime = 1000
  /\ reactElapsed = Duration /\ ~isAnimating /\ AtRest

\* C3: an update that starts while the entity is reacting leaves the wander
\* state (planar position, heading, destination, idle flag, idle-elapsed,
\* idle-duration, walk-phase) as it was.
C3_WanderSuspended ==
  [][(isAnimating /\ ev'.op = "update") => WanderUnchanged]_vars

\* the update that completes a reaction of an entity that was walking, away
\* from its destination
C3_Witness ==
  ev.op = "update" /\ ev.completed /\ ev.deltaTime > 0 /\ ~isIdle
  /\ DistSq(Position, targetPosition) >= ArriveDist * ArriveDist

\* C4 as stated: when all retries collide, the last candidate becomes the
\* destination.
C4_LastCandidateAccepted ==
  (ev.info.picked /\ ~ev.info.found) => targetPosition = ev.info.last

\* C4 amended: when all retries collide, the destination held before the call
\* is kept.
C4_ExhaustionKeepsDestination ==
  [][(ev'.info.picked /\ ~ev'.info.found)
       => targetPosition' = targetPosition]_vars

\* a selection has used up its retries and its last candidate is not the
\* destination
C4_Witness ==
  ev.info.picked /\ ~ev.info.found /\ targetPosition # ev.info.last
  /\ ~ClearOfAll(ev.info.last, obstacles, DestBuffer)

\* C5: a destination selected within the retry budget keeps the clearance
\* radius + 0.8 from every registered obstacle.
C5_SelectedDestinationClear ==
  (ev.info.picked /\ ev.info.found)
    => ClearOfAll(targetPosition, obstacles, DestBuffer)

\* a selection has succeeded with an obstacle registered
C5_Witness ==
  ev.op = "update" /\ ev.info.picked /\ ev.info.found /\ Len(obstacles) > 0
  /\ ev.info.last = targetPosition

\* C6: the destination is always within the boundary radius of the origin.
C6_DestinationInBoundary ==
  DistSq(targetPosition, [x |-> 0, z |-> 0]) <= boundaryRadius * boundaryRadius

\* a destination near the boundary, picked by an entity that is elsewhere
C6_Witness ==
  ev.op = "update" /\ ev.info.picked /\ ev.info.found
  /\ DistSq(targetPosition, [x |-> 0, z |-> 0]) > 900 * 900
  /\ DistSq(Position, [x |-> 0, z |-> 0]) > 0

\* C7 as stated: on a redirect the position is unchanged and the destination
\* differs from the one before the tick.
C7_RedirectChangesDestination ==
  [][ev'.branch = "redirect"
       => /\ posX' = posX /\ posZ' = posZ
          /\ targetPosition' # targetPosition]_vars

\* C7 amended: on a redirect the position is unchanged and a selection runs;
\* the destination after the tick is the candidate the selection found,
\* clear of every obstacle, or the old destination when the retries ran out.
C7_RedirectNoStep ==
  [][ev'.branch = "redirect"
       => /\ ~isAnimating /\ ~isIdle
          /\ DistSq(Position, targetPosition) >= ArriveDist * ArriveDist
          /\ posX' = posX /\ posZ' = posZ
          /\ ~isIdle'
          /\ ev'.info.picked
          /\ IF ev'.info.found
               THEN /\ targetPosition' = ev'.info.last
                    /\ ClearOfAll(targetPosition', obstacles, DestBuffer)
               ELSE targetPosition' = targetPosition]_vars

\* a redirect has happened
C7_Witness ==
  ev.op = "update" /\ ev.branch = "redirect" /\ ev.deltaTime > 0
  /\ Len(obstacles) > 0

C9_ArrivalThreshold ==
  [][(~isAnimating /\ ~isIdle /\ ev'.op = "update")
       => IF DistSq(Position, targetPosition) < ArriveDist * ArriveDist
            THEN /\ isIdle' /\ NeutralLegs'
                 /\ posX' = posX /\ posZ' = posZ /\ rotationY' = rotationY
            ELSE ~isIdle']_vars

\* an entity that walked has arrived
C9_Witness ==
  ev.op = "update" /\ ev.branch = "arrive" /\ isIdle /\ walkTime > 0

\* C10 as stated: an arrival and every selection draw a fresh idle duration.
C10_ArrivalRedrawsIdle ==
  (ev.branch = "arrive" \/ ev.info.picked) => ev.info.idleDrawn

\* C10 amended: every selection (construction, Idle to Walking, redirect,
\* also one that runs out of retries) draws a fresh idle duration in [1,4);
\* nothing else, the arrival included, changes it.
C10_IdleDrawnOnPickOnly ==
  /\ [](ev.info.picked
          => /\ ev.info.idleDrawn
             /\ idleDuration >= 1000 /\ idleDuration < 4000)
  /\ [][~ev'.info.picked
          => (idleDuration' = idleDuration /\ ~ev'.info.idleDrawn)]_vars

\* an arrival took place
C10_Witness ==
  ev.op = "update" /\ ev.branch = "arrive" /\ isIdle /\ ~ev.info.idleDrawn

\* C11 as stated: after any update that leaves the entity idle or reacting,
\* all four leg angles are zero.
C11_LegsNeutralIdleOrReacting ==
  (ev.op = "update" /\ (isIdle \/ isAnimating)) => NeutralLegs

\* C11 amended: the legs are neutral whenever the entity is idle, a walking
\* step sets them from the live walk-phase, and an update that starts while
\* the entity is reacting does not drive the legs at all: they keep the pose
\* they had.
C11_LegsNeutralIdleFrozenReacting ==
  /\ [](isIdle => NeutralLegs)
  /\ [][(isAnimating /\ ev'.op = "update") => legs' = legs]_vars
  /\ [][(ev'.op = "update" /\ ev'.branch = "step")
          => /\ walkTime' = walkTime + 8 * ev'.deltaTime
             /\ legs'.fl = legs'.br /\ legs'.fr = legs'.bl
             /\ legs'.fr = -legs'.fl]_vars

\* a click arrived mid-stride: the entity is reacting after an update and
\* its legs are still in the stride pose
C11_Witness ==
  ev.op = "update" /\ ev.branch = "reacting" /\ isAnimating /\ ~isIdle
  /\ ~NeutralLegs /\ walkTime > 0

\* C12: onClick in any state leaves the entity reacting with progress 0,
\* starts the sound exactly when there is one and it is not playing, and
\* changes nothing of the wander state; with no sound it only starts the
\* reaction.
C12_ClickStartsReaction ==
  [][ev'.op = "onClick"
       => /\ isAnimating' /\ animationProgress' = 0
          /\ WanderUnchanged
          /\ UNCHANGED <<legs, obstacles, posY, scale, mouthScaleY>>
          /\ (ev'.played <=> sound = "stopped")
          /\ sound' = (IF sound = "stopped" THEN "playing" ELSE sound)
          /\ (sound = "none" => sound' = "none")]_vars

\* a click has restarted a reaction that was under way (the pose is still
\* the partial one) while the sound was already playing
C12_Witness ==
  ev.op = "onClick" /\ isAnimating /\ animationProgress = 0 /\ ~AtRest
  /\ sound = "playing" /\ ~ev.played

\* the obstacles that were registered when the current destination was
\* selected
CheckedObstacles == SubSeq(obstacles, 1, hist.checked)

\* C13 as stated: as long as no selection has run out of retries, the
\* destination is clear of every registered obstacle, those registered after
\* construction included.
C13_DestinationAlwaysClear ==
  ~hist.exhausted => ClearOfAll(targetPosition, obstacles, DestBuffer)

\* C13 amended: the destination is clear of every obstacle that was
\* registered when that destination was selected; the constructor's
\* destination was selected with none registered.
C13_DestinationClearOfCheckedObstacles ==
  /\ hist.checked <= Len(obstacles)
  /\ ClearOfAll(targetPosition, CheckedObstacles, DestBuffer)
  /\ (ev.op = "new" => hist.checked = 0)

\* an obstacle was registered around the destination after the destination
\* was selected, and no selection has run out of retries
C13_Witness ==
  /\ ~hist.exhausted
  /\ hist.checked < Len(obstacles)
  /\ ~ClearOfAll(targetPosition, obstacles, DestBuffer)
  /\ ev.op = "update"

\* C15: an update that changes the planar position leaves the entity clear
\* of every registered obstacle by the step buffer 0.5, and no update takes
\* an entity that is clear of them into such a zone.
C15_StepsStayClear ==
  [][ev'.op = "update"
       => /\ (posX' # posX \/ posZ' # posZ)
               => ClearOfAll(Position', obstacles', StepBuffer)
          /\ ClearOfAll(Position, obstacles, StepBuffer)
               => ClearOfAll(Position', obstacles', StepBuffer)]_vars

\* a step has been taken with an obstacle registered, by an entity heading
\* for a destination inside the obstacle's zone
C15_Witness ==
  /\ ev.op = "update" /\ ev.branch = "step" /\ ev.deltaTime > 0
  /\ Len(obstacles) > 0
  /\ ~ClearOfAll(targetPosition, obstacles, StepBuffer)
  /\ ClearOfAll(Position, obstacles, StepBuffer)

\* the entity is walking and its step is below twice the arrival threshold
WalkingWithShortStep ==
  /\ ev.op = "update" /\ ~isIdle
  /\ walkSpeed * ev.deltaTime < 2 * ArriveDist * 1000

\* C14 as stated: a walking entity ticked with a fixed positive deltaTime
\* eventually becomes Idle, whatever the size of the step.
C14_WalkingReachesIdle ==
  (ev.op = "update" /\ ~isIdle) ~> isIdle

\* C14 amended: it eventually becomes Idle when the step speed x deltaTime
\* is below twice the arrival threshold.
C14_ShortStepReachesIdle == WalkingWithShortStep ~> isIdle

\* an arrival after a step that overshot the destination: the entity came
\* from x = 0 in steps of 0.36 and stands 0.13 beyond the destination
C14_Witness ==
  /\ ev.op = "update" /\ ev.branch = "arrive" /\ ev.deltaTime = 450 /\ isIdle
  /\ targetPosition = [x |-> 167, z |-> 0]
  /\ posX = 180 /\ posZ = 0

====
